---- MODULE Spec2Model ----
(***************************************************************************)
(* Model of the FireworkSketch component (src/unnamed/part_000): the       *)
(* Particle and Firework classes and the p5 frame callback p.draw, which   *)
(* runs the pinch detection over the reported hand landmarks and then the  *)
(* update / show / splice pass over the active fireworks.                  *)
(* The component around them (the mount effect, startApp and the effect's  *)
(* cleanup) is modelled by the variable life and the actions of SpecLife.  *)
(*                                                                         *)
(* Numbers.  The code works on IEEE doubles; the model uses integers in    *)
(* fixed units so that every value the claims speak about is exact:        *)
(*   - landmark coordinates (normalized 0..1) are stored times CoordScale; *)
(*   - lifespan and decay are stored times LifeScale (1/8 units: 1.5, 2.125*)
(*     and 3.5 are exact, as they are in binary floating point);           *)
(*   - positions, velocities and forces are stored times PosScale, and     *)
(*     PosScale = 2 * CoordScale makes midX * width = (tx + ix) * width    *)
(*     exact (the /2 of the midpoint is absorbed by the unit).             *)
(* Math.sqrt is monotone on non-negative numbers, so distance < threshold  *)
(* is modelled as distance^2 < threshold^2.  The damping vel.mult(0.92) is *)
(* computed in fixed point (rounded down).                                 *)
(***************************************************************************)
EXTENDS Integers, Sequences, FiniteSets, TLC

VARIABLES
    fireworks,        \* let fireworks: Firework[]            (part_000:154)
    handPinchStates,  \* Map<number, boolean>                 (part_000:157)
    lastVideoTime,    \* let lastVideoTime = -1               (part_000:17)
    canvas,           \* <<p.width, p.height>>, set by p.setup (part_000:160-162)
    elapsed,          \* frames the session has run so far (p5 counts them)
    obs,              \* history: what the last p.draw call did
    hist,             \* history: per hand index, the reports of the detection frames
    scen,             \* history: hand 0's spawn counts while its reports follow Scenario
    life              \* the component: its effect runs, refs and React state

vars == <<fireworks, handPinchStates, lastVideoTime, canvas, elapsed, obs, hist, scen,
          life>>

(***************************************************************************)
(* Units and program constants                                             *)
(***************************************************************************)
CoordScale == 1000
LifeScale == 8
PosScale == 2000

\* this.lifespan = 255
MaxLifespan == 255
\* const count = 120
count == 120
\* const pinchThreshold = 0.05, in CoordScale units
pinchThreshold == 50
\* createVector(0, 0.15), the y component in PosScale units
gravityY == 300
\* this.vel.mult(0.92), in percent
dampingPct == 92
\* this.lifespan > 200 ? 5 : 3
brightLifespan == 200
\* enum HandLandmark
THUMB_TIP == 4
INDEX_FINGER_TIP == 8

(***************************************************************************)
(* Bounds of the model                                                     *)
(***************************************************************************)
\* hands one detection result can report (hand indices 0 .. MaxHands-1)
MaxHands == 2
\* frames of a session of Spec
MaxFrames == 4
\* last timestamp of the video of SpecAnim (it then stays on that frame)
AnimVideoEnd == 2
\* in the model the accumulated force of a particle saturates at this value
\* (the code lets the force of a frozen particle grow by gravity every frame)
AccCap == 600
\* runs of the mount effect in a session of SpecLife
MaxRuns == 2
\* frames of a session of SpecLife
MaxLifeFrames == 2

Hands == 0 .. (MaxHands - 1)

Min(a, b) == IF a < b THEN a ELSE b

Max(a, b) == IF a > b THEN a ELSE b

Splice(s, i) == SubSeq(s, 1, i - 1) \o SubSeq(s, i + 1, Len(s))

(***************************************************************************)
(* The random source.  One element is the outcome of all the draws one     *)
(* Firework constructor makes: the hue, and for the particles the decay    *)
(* rate (p.random(1.5, 4), here in LifeScale units, alternating between    *)
(* two values), the speed (p.random(5, 22)) and the unit direction         *)
(* (random2D, here cycling through the four axis directions).              *)
(*   decay 12 = 1.5 and 17 = 2.125 divide 255 exactly (170 and 120 steps); *)
(*   decay 28 = 3.5 and 31 = 3.875 do not; decay 22 = 2.75 passes through  *)
(*   lifespan exactly 200 (20 steps).                                      *)
(***************************************************************************)
Directions == << <<1, 0>>, <<0, 1>>, <<-1, 0>>, <<0, -1>> >>

RandomSources ==
    { [hue |-> 30,  decay |-> <<28, 28>>, speed |-> 5,  launch |-> -12],
      [hue |-> 200, decay |-> <<31, 28>>, speed |-> 21, launch |-> -9],
      [hue |-> 200, decay |-> <<12, 22>>, speed |-> 5,  launch |-> -9],
      [hue |-> 30,  decay |-> <<17, 17>>, speed |-> 21, launch |-> -12] }

\* the draws of the k-th particle (k = 0 .. count-1) of a burst
ParticleDraws(rnd, k) ==
    [dir    |-> Directions[(k % 4) + 1],
     speed  |-> rnd.speed,
     decay  |-> rnd.decay[(k % 2) + 1],
     launch |-> rnd.launch]

(***************************************************************************)
(* class Particle                                                          *)
(***************************************************************************)
\* mutant of Particle: the explosion flag is read the wrong way round
ParticleFlagInverted(x, y, hue, explosion, rv) ==
    [pos      |-> <<x, y>>,
     lifespan |-> MaxLifespan * LifeScale,
     hue      |-> hue,
     acc      |-> <<0, 0>>,
     vel      |-> IF ~explosion
                  THEN <<rv.dir[1] * rv.speed * PosScale, rv.dir[2] * rv.speed * PosScale>>
                  ELSE <<0, rv.launch * PosScale>>,
     decay    |-> IF ~explosion THEN rv.decay ELSE 0]

\* constructor(p, x, y, hue, explosion); rv are the random draws it makes
Particle(x, y, hue, explosion, rv) ==
    [pos      |-> <<x, y>>,
     lifespan |-> MaxLifespan * LifeScale,
     hue      |-> hue,
     acc      |-> <<0, 0>>,
     vel      |-> IF explosion
                  THEN <<rv.dir[1] * rv.speed * PosScale, rv.dir[2] * rv.speed * PosScale>>
                  ELSE <<0, rv.launch * PosScale>>,
     decay    |-> IF explosion THEN rv.decay ELSE 0]

Clip(v) == Max(0 - AccCap, Min(AccCap, v))

\* applyForce(force): this.acc.add(force)
ParticleApplyForce(pt, force) ==
    [pt EXCEPT !.acc = <<Clip(pt.acc[1] + force[1]), Clip(pt.acc[2] + force[2])>>]

\* vel.mult(0.92)
Damp(v) == (v * dampingPct) \div 100

\* update()
ParticleUpdate(pt) ==
    IF pt.lifespan > 0
    THEN LET v == <<Damp(pt.vel[1]) + pt.acc[1], Damp(pt.vel[2]) + pt.acc[2]>>
         IN  [pt EXCEPT !.vel = v,
                        !.pos = <<pt.pos[1] + v[1], pt.pos[2] + v[2]>>,
                        !.acc = <<0, 0>>,
                        !.lifespan = pt.lifespan - pt.decay]
    ELSE pt

\* mutant of ParticleDone: a lifespan of exactly 0 counts as expired
ParticleDoneInclusive(pt) == pt.lifespan <= 0

\* done(): return this.lifespan < 0
ParticleDone(pt) == pt.lifespan < 0

\* mutant of ParticleShow: the larger stroke weight at lifespan 200 too
ParticleShowInclusive(pt) ==
    [weight   |-> IF pt.lifespan >= brightLifespan * LifeScale THEN 5 ELSE 3,
     hue      |-> pt.hue,
     lifespan |-> pt.lifespan,
     pos      |-> pt.pos]

\* show(): the point it draws (stroke weight, hue, alpha = lifespan / 255 as the
\* numerator over 255 * LifeScale, position)
ParticleShow(pt) ==
    [weight   |-> IF pt.lifespan > brightLifespan * LifeScale THEN 5 ELSE 3,
     hue      |-> pt.hue,
     lifespan |-> pt.lifespan,
     pos      |-> pt.pos]

(***************************************************************************)
(* class Firework                                                          *)
(***************************************************************************)
RECURSIVE Explode(_, _, _, _, _, _, _)
\* explode(x, y): for (let i = 0; i < count; i++) particles.push(new Particle(...)),
\* here the iterations i = lo .. hi-1.  The range is run as its lower half followed
\* by its upper half (the same sequence of iterations, evaluated to a bounded depth).
Explode(particles, lo, hi, x, y, hue, rnd) ==
    IF hi <= lo THEN particles
    ELSE IF hi = lo + 1
    THEN Append(particles, Particle(x, y, hue, TRUE, ParticleDraws(rnd, lo)))
    ELSE LET mid   == (lo + hi) \div 2
             lower == Explode(particles, lo, mid, x, y, hue, rnd)
         IN  \* the test holds always: it makes TLC finish the lower half first
             IF Len(lower) >= 0 THEN Explode(lower, mid, hi, x, y, hue, rnd) ELSE lower

\* mutant of Firework: explode runs twice
FireworkExplodesTwice(x, y, rnd) ==
    [hue       |-> rnd.hue,
     particles |-> Explode(Explode(<<>>, 0, count, x, y, rnd.hue, rnd),
                           0, count, x, y, rnd.hue, rnd),
     done      |-> FALSE]

\* constructor(p, x, y)
Firework(x, y, rnd) ==
    [hue       |-> rnd.hue,
     particles |-> Explode(<<>>, 0, count, x, y, rnd.hue, rnd),
     done      |-> FALSE]

\* one iteration of the for loop of Firework.update, at index i (1-based here).
\* r.particles is the array; r.steps, r.visits and r.removed are history:
\* the <<lifespan before, lifespan after, removed>> of every particle.update
\* call, the number of iterations, and how many particles were spliced out.
UpdateStep(r, i, gravity) ==
    LET before == r.particles[i]
        after  == ParticleUpdate(ParticleApplyForce(before, gravity))
        ps1    == [r.particles EXCEPT ![i] = after]
        gone   == ParticleDone(ps1[i])
        ps2    == IF gone THEN Splice(ps1, i) ELSE ps1
    IN  [particles |-> ps2,
         steps     |-> r.steps \cup {<<before.lifespan, after.lifespan, gone>>},
         visits    |-> r.visits + 1,
         removed   |-> r.removed + (IF gone THEN 1 ELSE 0)]

RECURSIVE UpdateLoop(_, _, _, _)
\* for (let i = this.particles.length - 1; i >= 0; i--), here the iterations
\* i = hi down to lo, run as the upper half followed by the lower half
UpdateLoop(r, hi, lo, gravity) ==
    IF hi < lo THEN r
    ELSE IF hi = lo THEN UpdateStep(r, hi, gravity)
    ELSE LET mid   == (lo + hi) \div 2
             upper == UpdateLoop(r, hi, mid + 1, gravity)
         IN  \* the test holds always: it makes TLC finish the upper half first
             IF upper.visits >= 0 THEN UpdateLoop(upper, mid, lo, gravity) ELSE upper

\* mutant of FireworkUpdate: the completion test reads the length from before the loop
FireworkUpdateStaleLength(fw) ==
    LET gravity == <<0, gravityY>>
        r == UpdateLoop([particles |-> fw.particles, steps |-> {}, visits |-> 0,
                         removed |-> 0],
                        Len(fw.particles), 1, gravity)
    IN  [fw   |-> [fw EXCEPT !.particles = r.particles,
                             !.done = IF Len(fw.particles) = 0 THEN TRUE ELSE fw.done],
         log  |-> [startLen |-> Len(fw.particles), visits |-> r.visits,
                   removed |-> r.removed, steps |-> r.steps]]

\* update(): returns the firework after the call and the history of the call
FireworkUpdate(fw) ==
    LET gravity == <<0, gravityY>>
        r == UpdateLoop([particles |-> fw.particles, steps |-> {}, visits |-> 0,
                         removed |-> 0],
                        Len(fw.particles), 1, gravity)
    IN  [fw   |-> [fw EXCEPT !.particles = r.particles,
                             !.done = IF Len(r.particles) = 0 THEN TRUE ELSE fw.done],
         log  |-> [startLen |-> Len(fw.particles), visits |-> r.visits,
                   removed |-> r.removed, steps |-> r.steps]]

\* show(): the set of points drawn
FireworkShow(fw) == {ParticleShow(fw.particles[k]) : k \in 1 .. Len(fw.particles)}

(***************************************************************************)
(* The detection result.  A hand is the two landmarks the code reads, each *)
(* <<x, y>> in CoordScale units; a result either carries no landmark data  *)
(* (detections.landmarks is falsy) or a list of at most MaxHands hands.    *)
(*   Open: distance 0.08   AtThreshold: distance exactly 0.05 (a 3-4-5     *)
(*   triangle)   Pinch: distance 0.03                                      *)
(***************************************************************************)
Hand(tx, ty, ix, iy) == (THUMB_TIP :> <<tx, ty>>) @@ (INDEX_FINGER_TIP :> <<ix, iy>>)

HandPoses ==
    { Hand(400, 500, 480, 500),
      Hand(400, 500, 430, 540),
      Hand(600, 200, 630, 200) }

RECURSIVE HandLists(_)
HandLists(n) ==
    IF n = 0 THEN {<<>>}
    ELSE HandLists(n - 1) \cup
         {Append(l, h) : l \in {m \in HandLists(n - 1) : Len(m) = n - 1}, h \in HandPoses}

NoLandmarks == [present |-> FALSE, hands |-> <<>>]

Detections == {NoLandmarks} \cup {[present |-> TRUE, hands |-> l] : l \in HandLists(MaxHands)}

\* the canvas p.setup creates: the video's (or the window's) width and height
CanvasSizes == {<<640, 480>>}

(***************************************************************************)
(* p.draw: the detection step                                              *)
(***************************************************************************)
\* dx * dx + dy * dy (Math.sqrt is applied in the comparison, see IsPinched)
DistanceSq(hand) ==
    LET dx == hand[THUMB_TIP][1] - hand[INDEX_FINGER_TIP][1]
        dy == hand[THUMB_TIP][2] - hand[INDEX_FINGER_TIP][2]
    IN  dx * dx + dy * dy

\* mutant of IsPinched: the threshold itself counts as pinched
IsPinchedInclusive(hand) == DistanceSq(hand) <= pinchThreshold * pinchThreshold

\* const isPinched = distance < pinchThreshold
IsPinched(hand) == DistanceSq(hand) < pinchThreshold * pinchThreshold

\* mutant of WasPinched: the stored state is ignored
WasPinchedNever(table, index) == FALSE

\* mutant of WasPinched: the stored state is read for hand index 0 only, every
\* other index counts as not pinched before
WasPinchedFirstHandOnly(table, index) ==
    index = 0 /\ index \in DOMAIN table /\ table[index]

\* handPinchStates.get(index) || false
WasPinched(table, index) == IF index \in DOMAIN table THEN table[index] ELSE FALSE

\* mutant of SetPinched: a release is not stored
SetPinchedSticky(table, index, isPinched) ==
    IF isPinched THEN (index :> TRUE) @@ table ELSE table

\* mutant of SetPinched: storing an index forgets the other indices
SetPinchedFresh(table, index, isPinched) == (index :> isPinched)

\* handPinchStates.set(index, isPinched)
SetPinched(table, index, isPinched) == (index :> isPinched) @@ table

\* mutant of SpawnPoint: the thumb tip instead of the midpoint
SpawnPointThumb(hand, size) ==
    << 2 * hand[THUMB_TIP][1] * size[1], 2 * hand[THUMB_TIP][2] * size[2] >>

\* the spawn point: x = midX * p.width, y = midY * p.height, in PosScale units
SpawnPoint(hand, size) ==
    << (hand[THUMB_TIP][1] + hand[INDEX_FINGER_TIP][1]) * size[1],
       (hand[THUMB_TIP][2] + hand[INDEX_FINGER_TIP][2]) * size[2] >>

\* the hand indices for which this detection result creates a firework; each index
\* occurs once in a result, so what the table holds when the result arrives decides
Spawners(table, hands) ==
    {i - 1 : i \in {j \in 1 .. Len(hands) : IsPinched(hands[j]) /\ ~WasPinched(table, j - 1)}}

RECURSIVE DetectLoop(_, _, _, _, _)
\* detections.landmarks.forEach((hand, index) => ...), from position i (index i-1).
\* r.table and r.fireworks are the program's; r.spawns is history: the
\* fireworks as constructed, with the hand index and the spawn point.
DetectLoop(r, hands, i, size, rnd) ==
    IF i <= Len(hands)
    THEN LET index      == i - 1
             isPinched  == IsPinched(hands[i])
             wasPinched == WasPinched(r.table, index)
             trigger    == isPinched /\ ~wasPinched
             at         == SpawnPoint(hands[i], size)
             fw         == Firework(at[1], at[2], rnd[index])
         IN  DetectLoop([table     |-> SetPinched(r.table, index, isPinched),
                         fireworks |-> IF trigger THEN Append(r.fireworks, fw)
                                                  ELSE r.fireworks,
                         spawns    |-> IF trigger
                                       THEN Append(r.spawns,
                                                   [index |-> index, x |-> at[1],
                                                    y |-> at[2], fw |-> fw])
                                       ELSE r.spawns],
                        hands, i + 1, size, rnd)
    ELSE r

(***************************************************************************)
(* p.draw: the animation step                                              *)
(***************************************************************************)
\* mutant of AnimateStep: a completed firework is left in the list
AnimateStepNoSplice(r, i) ==
    LET u     == FireworkUpdate(r.fireworks[i])
        fws1  == [r.fireworks EXCEPT ![i] = u.fw]
        shown == FireworkShow(fws1[i])
    IN  [fireworks |-> fws1,
         updates   |-> Append(r.updates,
                              [done     |-> u.fw.done,
                               endLen   |-> Len(u.fw.particles),
                               startLen |-> u.log.startLen,
                               visits   |-> u.log.visits,
                               removed  |-> u.log.removed,
                               steps    |-> u.log.steps,
                               drawn    |-> {<<d.lifespan, d.weight>> : d \in shown}])]

\* mutant of AnimateStep: show() is called before update()
AnimateStepShowsFirst(r, i) ==
    LET shown == FireworkShow(r.fireworks[i])
        u     == FireworkUpdate(r.fireworks[i])
        fws1  == [r.fireworks EXCEPT ![i] = u.fw]
        fws2  == IF fws1[i].done THEN Splice(fws1, i) ELSE fws1
    IN  [fireworks |-> fws2,
         updates   |-> Append(r.updates,
                              [done     |-> u.fw.done,
                               endLen   |-> Len(u.fw.particles),
                               startLen |-> u.log.startLen,
                               visits   |-> u.log.visits,
                               removed  |-> u.log.removed,
                               steps    |-> u.log.steps,
                               drawn    |-> {<<d.lifespan, d.weight>> : d \in shown}])]

\* one iteration of the loop over the fireworks, at index i (1-based here):
\* fireworks[i].update(); fireworks[i].show(); if (fireworks[i].done) splice.
\* r.fireworks is the program's; r.updates is history: per firework visited,
\* its state right after update() and what show() drew.
AnimateStep(r, i) ==
    LET u     == FireworkUpdate(r.fireworks[i])
        fws1  == [r.fireworks EXCEPT ![i] = u.fw]
        shown == FireworkShow(fws1[i])
        fws2  == IF fws1[i].done THEN Splice(fws1, i) ELSE fws1
    IN  [fireworks |-> fws2,
         updates   |-> Append(r.updates,
                              [done     |-> u.fw.done,
                               endLen   |-> Len(u.fw.particles),
                               startLen |-> u.log.startLen,
                               visits   |-> u.log.visits,
                               removed  |-> u.log.removed,
                               steps    |-> u.log.steps,
                               drawn    |-> {<<d.lifespan, d.weight>> : d \in shown}])]

RECURSIVE AnimateLoop(_, _)
\* mutant of AnimateLoop: after a splice the next firework down is skipped
AnimateLoopSkipsAfterSplice(r, i) ==
    IF i >= 1
    THEN LET s == AnimateStep(r, i)
         IN  AnimateLoop(s, IF Len(s.fireworks) < Len(r.fireworks) THEN i - 2 ELSE i - 1)
    ELSE r

\* for (let i = fireworks.length - 1; i >= 0; i--), from index i down to 1
AnimateLoop(r, i) ==
    IF i >= 1 THEN AnimateLoop(AnimateStep(r, i), i - 1) ELSE r

(***************************************************************************)
(* History kept for the properties (not program state)                     *)
(***************************************************************************)
\* the distances of the scenario of the specification, in CoordScale units
Scenario == <<80, 30, 30, 80>>

NoHistory ==
    [rep |-> "none", prevRep |-> "none", run |-> 0, runSpawns |-> 0, runFirst |-> 0,
     runPrior |-> FALSE, lastClass |-> FALSE, prevClass |-> FALSE]

\* how a detection result reports hand index h: "none", "open" (distance >= 0.05)
\* or "pinch" (distance < 0.05)
Report(det, h) ==
    IF ~det.present \/ h + 1 > Len(det.hands) THEN "none"
    ELSE IF DistanceSq(det.hands[h + 1]) < pinchThreshold * pinchThreshold THEN "pinch"
    ELSE "open"

\* the number of fireworks a frame created for hand index h
SpawnCount(spawns, h) == Cardinality({k \in 1 .. Len(spawns) : spawns[k].index = h})

\* the history of hand index h after a detection frame with result det that
\* created n fireworks for it
HistStep(old, rep, n) ==
    LET inRun == rep = "pinch"
        first == old.run = 0
    IN  [rep       |-> rep,
         prevRep   |-> old.rep,
         run       |-> IF inRun THEN old.run + 1 ELSE 0,
         runSpawns |-> IF inRun THEN (IF first THEN 0 ELSE old.runSpawns) + n ELSE 0,
         runFirst  |-> IF inRun THEN (IF first THEN n ELSE old.runFirst) ELSE 0,
         runPrior  |-> IF inRun THEN (IF first THEN old.lastClass ELSE old.runPrior)
                                ELSE FALSE,
         lastClass |-> IF rep = "none" THEN old.lastClass ELSE inRun,
         prevClass |-> IF rep = "none" THEN old.prevClass ELSE old.lastClass]

\* hand 0's spawn counts so far, as long as its reports follow Scenario
ScenStep(old, det, n) ==
    IF Report(det, 0) = "none" THEN old
    ELSE IF old.live /\ Len(old.out) < Len(Scenario)
            /\ DistanceSq(det.hands[1])
                 = Scenario[Len(old.out) + 1] * Scenario[Len(old.out) + 1]
         THEN [live |-> TRUE, out |-> Append(old.out, n)]
         ELSE [live |-> FALSE, out |-> <<>>]

(***************************************************************************)
(* The component.  life.runs holds one record per run of the mount effect: *)
(* the closure variables of that run (myP5, handLandmarker), the stream    *)
(* that its getUserMedia call returned, and where its startApp stands:     *)
(*   "camera"   awaiting getUserMedia                                      *)
(*   "metadata" awaiting the promise resolved by onloadedmetadata          *)
(*   "model"    awaiting createHandLandmarker                              *)
(*   "running"  startApp has returned from its try block                   *)
(*   "failed"   startApp has returned from its catch block                 *)
(* The rest of life is shared by the runs: the refs (videoRef.current and  *)
(* canvasRef.current, attached or null), the video element's srcObject and *)
(* onloadedmetadata handler (the run that set them, 0 for none), the       *)
(* streams whose tracks were stopped, and the React state loading / error. *)
(***************************************************************************)
ErrorMessage == "Could not access camera or load AI model."

\* the closure of a run of the effect, startApp() called: getUserMedia is pending.
\* overlap (history): an earlier run's startApp had not returned yet.
NewRun(overlap) ==
    [pc |-> "camera", stream |-> FALSE, handLandmarker |-> "none", myP5 |-> "none",
     cleaned |-> FALSE, errors |-> 0, getUserMediaCalls |-> 1, landmarkerCalls |-> 0,
     overlap |-> overlap]

\* startApp of this run has not returned
Pending(run) == run.pc \in {"camera", "metadata", "model"}

\* the component as first rendered: useState(true), useState(null), no effect run
Mounted ==
    [runs |-> <<>>, refs |-> TRUE, srcObject |-> 0, onloadedmetadata |-> 0,
     stopped |-> {}, loading |-> TRUE, error |-> "", unmounted |-> FALSE]

\* the component after one run of the effect whose startApp went through
Started ==
    [Mounted EXCEPT
        !.runs = <<[NewRun(FALSE) EXCEPT !.pc = "running", !.stream = TRUE,
                                         !.handLandmarker = "open", !.myP5 = "live",
                                         !.landmarkerCalls = 1]>>,
        !.srcObject = 1, !.onloadedmetadata = 1, !.loading = FALSE]

(***************************************************************************)
(* The state after the sketch is created (p.setup has run)                 *)
(***************************************************************************)
Init ==
    /\ life = Started
    /\ fireworks = <<>>
    /\ handPinchStates = <<>>
    /\ lastVideoTime = -1
    /\ canvas \in CanvasSizes
    /\ elapsed = 0
    /\ obs = [called |-> FALSE, detected |-> FALSE, det |-> NoLandmarks,
              time |-> -1, prevTime |-> -1, size |-> canvas, before |-> <<>>, lenBefore |-> 0, lenDetect |-> 0,
              spawns |-> <<>>, updates |-> <<>>]
    /\ hist = [h \in Hands |-> NoHistory]
    /\ scen = [live |-> TRUE, out |-> <<>>]

\* mutant of DetectionDue: detection runs in every frame
DetectionDueAlways(t, last) == TRUE

\* videoRef.current.currentTime !== lastVideoTime (the landmarker and the video
\* exist once the sketch runs)
DetectionDue(t, last) == t # last

(***************************************************************************)
(* p.draw, called with the video at time t and det the result that         *)
(* detectForVideo returns if it is called                                  *)
(***************************************************************************)
Draw(t, det, sources) ==
    LET detect  == DetectionDue(t, lastVideoTime)
        process == detect /\ det.present
        sp      == IF process THEN Spawners(handPinchStates, det.hands) ELSE {}
    IN  \E rnd \in [sp -> sources] :
          LET d == IF process
                   THEN DetectLoop([table |-> handPinchStates, fireworks |-> fireworks,
                                    spawns |-> <<>>],
                                   det.hands, 1, canvas, rnd)
                   ELSE [table |-> handPinchStates, fireworks |-> fireworks,
                         spawns |-> <<>>]
              a == AnimateLoop([fireworks |-> d.fireworks, updates |-> <<>>],
                               Len(d.fireworks))
          IN  /\ lastVideoTime' = IF detect THEN t ELSE lastVideoTime
              /\ handPinchStates' = d.table
              /\ fireworks' = a.fireworks
              /\ obs' = [called |-> TRUE, detected |-> detect,
                         det |-> IF detect THEN det ELSE NoLandmarks,
                         time |-> t, prevTime |-> lastVideoTime, size |-> canvas, before |-> handPinchStates,
                         lenBefore |-> Len(fireworks), lenDetect |-> Len(d.fireworks),
                         spawns |-> d.spawns, updates |-> a.updates]
              /\ hist' = IF detect
                         THEN [h \in Hands |->
                                 HistStep(hist[h], Report(det, h), SpawnCount(d.spawns, h))]
                         ELSE hist
              /\ scen' = IF detect THEN ScenStep(scen, det, SpawnCount(d.spawns, 0))
                                   ELSE scen
              /\ UNCHANGED <<canvas, life>>

\* the video's currentTime at the next frame: unchanged, or advanced
NextTimes == IF lastVideoTime < 0 THEN {0} ELSE {lastVideoTime, lastVideoTime + 1}

\* detectForVideo is called only when the video time is new: otherwise there is
\* no detection result to choose
ResultsAt(t, results) ==
    IF DetectionDue(t, lastVideoTime) THEN results ELSE {NoLandmarks}

\* the random outcomes drawn from in the sessions of Spec
GestureSources == {r \in RandomSources : r.decay = <<31, 28>>}

\* one display frame of a session of at most MaxFrames frames
Frame ==
    /\ elapsed < MaxFrames
    /\ elapsed' = elapsed + 1
    /\ \E t \in NextTimes :
          \E det \in ResultsAt(t, Detections) : Draw(t, det, GestureSources)

Next == Frame

Spec == Init /\ [][Next]_vars

(***************************************************************************)
(* A session of any length in front of a video that advances on every      *)
(* frame up to AnimVideoEnd and then stays on its last frame; at most one  *)
(* hand, open or pinched.  Frames are counted modulo 2 here, and the frame *)
(* callback is called again and again: infinitely many frames happen.      *)
(***************************************************************************)
AnimDetections ==
    {d \in Detections :
        /\ Len(d.hands) <= 1
        /\ \A k \in 1 .. Len(d.hands) :
              d.hands[k] \in {Hand(400, 500, 480, 500), Hand(600, 200, 630, 200)}}

\* the part of a frame of SpecAnim that counts it
AnimTick == elapsed' = (elapsed + 1) % 2

AnimFrame ==
    /\ AnimTick
    /\ LET t == Min(lastVideoTime + 1, AnimVideoEnd)
       IN  \E det \in ResultsAt(t, AnimDetections) : Draw(t, det, RandomSources)

NextAnim == AnimFrame

SpecAnim == Init /\ [][NextAnim]_vars /\ WF_elapsed(AnimTick)

(***************************************************************************)
(* The life of the component: runs of the mount effect, the steps of each  *)
(* run's startApp as its awaits resolve or reject, the effect's cleanup,   *)
(* and frames of a sketch that is live.  The sketch variables are those of *)
(* the sketch whose frames are taken; createHandLandmarker is outside      *)
(* src/ and is taken to resolve with a landmarker or to reject.            *)
(***************************************************************************)
sketchVars == <<fireworks, handPinchStates, lastVideoTime, canvas, elapsed, obs, hist, scen>>

\* useEffect(() => { ...; startApp(); return cleanup }, []): a run of the effect.
\* After the first run it runs again only after the previous run's cleanup.
EffectRun ==
    /\ Len(life.runs) < MaxRuns
    /\ ~life.unmounted
    /\ Len(life.runs) > 0 => life.runs[Len(life.runs)].cleaned
    /\ life' = [life EXCEPT
                  !.runs = Append(@, NewRun(\E j \in 1 .. Len(life.runs) :
                                               Pending(life.runs[j])))]
    /\ UNCHANGED sketchVars

\* getUserMedia resolves: if (videoRef.current) { srcObject = stream; await the
\* promise that onloadedmetadata resolves }
CameraResolves(k) ==
    /\ life.runs[k].pc = "camera"
    /\ life' = IF life.refs
               THEN [life EXCEPT !.runs[k].stream = TRUE, !.runs[k].pc = "metadata",
                                 !.srcObject = k, !.onloadedmetadata = k]
               ELSE [life EXCEPT !.runs[k].stream = TRUE, !.runs[k].pc = "model",
                                 !.runs[k].landmarkerCalls = @ + 1]
    /\ UNCHANGED sketchVars

\* mutant of Catch: loading is left set
CatchKeepsLoading(l, k) ==
    [l EXCEPT !.runs[k].pc = "failed", !.runs[k].errors = @ + 1, !.error = ErrorMessage]

\* catch (err) { console.error(...); setError("..."); setLoading(false); }
Catch(l, k) ==
    [l EXCEPT !.runs[k].pc = "failed", !.runs[k].errors = @ + 1,
              !.error = ErrorMessage, !.loading = FALSE]

\* getUserMedia rejects
CameraFails(k) ==
    /\ life.runs[k].pc = "camera"
    /\ life' = Catch(life, k)
    /\ UNCHANGED sketchVars

\* the video element fires loadedmetadata: the handler installed last runs
\* (videoRef.current!.play(); resolve(true)) and its run goes on to
\* createHandLandmarker()
MetadataLoaded(k) ==
    /\ life.runs[k].pc = "metadata"
    /\ life.onloadedmetadata = k
    /\ life.refs
    /\ life' = [life EXCEPT !.runs[k].pc = "model", !.runs[k].landmarkerCalls = @ + 1]
    /\ UNCHANGED sketchVars

\* createHandLandmarker resolves: handLandmarker = ...; setLoading(false);
\* if (canvasRef.current) myP5 = new p5(sketch, canvasRef.current)
ModelLoads(k) ==
    /\ life.runs[k].pc = "model"
    /\ life' = [life EXCEPT !.runs[k].handLandmarker = "open",
                            !.runs[k].myP5 = IF life.refs THEN "live" ELSE "none",
                            !.runs[k].pc = "running",
                            !.loading = FALSE]
    /\ UNCHANGED sketchVars

\* createHandLandmarker rejects
ModelFails(k) ==
    /\ life.runs[k].pc = "model"
    /\ life' = Catch(life, k)
    /\ UNCHANGED sketchVars

\* the cleanup returned by run k, with videoRef.current attached or null:
\* if (myP5) myP5.remove(); if (handLandmarker) handLandmarker.close();
\* if (videoRef.current && videoRef.current.srcObject) stop every track of it
CleanupEffect(l, k, attached) ==
    [l EXCEPT
        !.runs[k].myP5 = IF @ = "live" THEN "removed" ELSE @,
        !.runs[k].handLandmarker = IF @ = "open" THEN "closed" ELSE @,
        !.runs[k].cleaned = TRUE,
        !.stopped = IF attached /\ l.srcObject # 0 THEN @ \cup {l.srcObject} ELSE @]

\* React runs the cleanup of the latest run of the effect: with the refs still
\* attached (after which the effect may run again), or at an unmount that has
\* detached the refs before the cleanup runs
Cleanup ==
    /\ Len(life.runs) > 0
    /\ ~life.runs[Len(life.runs)].cleaned
    /\ \E detach \in BOOLEAN :
          life' = [CleanupEffect(life, Len(life.runs), life.refs /\ ~detach) EXCEPT
                      !.refs = life.refs /\ ~detach,
                      !.unmounted = detach]
    /\ UNCHANGED sketchVars

\* a frame of a live sketch in front of the attached video
LifeFrame ==
    /\ \E k \in 1 .. Len(life.runs) : life.runs[k].myP5 = "live"
    /\ life.refs
    /\ elapsed < MaxLifeFrames
    /\ elapsed' = elapsed + 1
    /\ \E t \in NextTimes :
          \E det \in ResultsAt(t, AnimDetections) : Draw(t, det, GestureSources)

InitLife ==
    /\ life = Mounted
    /\ fireworks = <<>>
    /\ handPinchStates = <<>>
    /\ lastVideoTime = -1
    /\ canvas \in CanvasSizes
    /\ elapsed = 0
    /\ obs = [called |-> FALSE, detected |-> FALSE, det |-> NoLandmarks,
              time |-> -1, prevTime |-> -1, size |-> canvas, before |-> <<>>,
              lenBefore |-> 0, lenDetect |-> 0, spawns |-> <<>>, updates |-> <<>>]
    /\ hist = [h \in Hands |-> NoHistory]
    /\ scen = [live |-> TRUE, out |-> <<>>]

NextLife ==
    \/ EffectRun
    \/ \E k \in 1 .. Len(life.runs) : CameraResolves(k)
    \/ \E k \in 1 .. Len(life.runs) : CameraFails(k)
    \/ \E k \in 1 .. Len(life.runs) : MetadataLoaded(k)
    \/ \E k \in 1 .. Len(life.runs) : ModelLoads(k)
    \/ \E k \in 1 .. Len(life.runs) : ModelFails(k)
    \/ Cleanup
    \/ LifeFrame

SpecLife == InitLife /\ [][NextLife]_vars

(***************************************************************************)
(* Properties of the detection step (checked under Spec)                   *)
(***************************************************************************)
\* the hand indices the last frame's detection result reports
Reported == {h \in Hands : Report(obs.det, h) # "none"}

\* position k of obs.spawns lies at the midpoint of the two landmarks of the hand
\* it names, scaled to the canvas: x / PosScale = ((tx + ix) / 2 / CoordScale) * width
AtScaledMidpoint(sp) ==
    LET hand == obs.det.hands[sp.index + 1]
    IN  /\ sp.x * 2 * CoordScale
             = (hand[THUMB_TIP][1] + hand[INDEX_FINGER_TIP][1]) * obs.size[1] * PosScale
        /\ sp.y * 2 * CoordScale
             = (hand[THUMB_TIP][2] + hand[INDEX_FINGER_TIP][2]) * obs.size[2] * PosScale

\* C1: a hand reported with distance >= 0.05 in one detection frame and < 0.05 in
\* the next detection frame gets exactly one new firework in that second frame,
\* pushed onto the active list, at (midX * canvas width, midY * canvas height).
C1_TransitionSpawnsOnce ==
    obs.detected =>
        /\ obs.lenDetect = obs.lenBefore + Len(obs.spawns)
        /\ \A h \in Hands :
              (hist[h].prevRep = "open" /\ hist[h].rep = "pinch") =>
                  /\ SpawnCount(obs.spawns, h) = 1
                  /\ \A k \in 1 .. Len(obs.spawns) :
                        obs.spawns[k].index = h =>
                            /\ AtScaledMidpoint(obs.spawns[k])
                            /\ \A j \in 1 .. Len(obs.spawns[k].fw.particles) :
                                  obs.spawns[k].fw.particles[j].pos
                                      = <<obs.spawns[k].x, obs.spawns[k].y>>

\* C1 witness: the second hand index opens and then pinches, and one firework is
\* created for it
C1_Witness ==
    /\ obs.detected
    /\ hist[1].prevRep = "open" /\ hist[1].rep = "pinch"
    /\ SpawnCount(obs.spawns, 1) = 1

\* C2 as stated: whenever a hand has been reported with distance < 0.05 in the
\* last N >= 1 consecutive detection frames, exactly one firework was created
\* for it over those frames, in the first of them.
C2_Original ==
    \A h \in Hands :
        hist[h].run >= 1 => (hist[h].runSpawns = 1 /\ hist[h].runFirst = 1)

\* C2 amended: the same, provided the most recent earlier report of that hand
\* index (if any) was not pinched; in every case frames 2..N create none.
C2_RunSpawnsOnce ==
    \A h \in Hands :
        hist[h].run >= 1 =>
            /\ hist[h].runSpawns = hist[h].runFirst
            /\ ~hist[h].runPrior => (hist[h].runSpawns = 1 /\ hist[h].runFirst = 1)

\* C2 witness: a hand pinched for three detection frames in a row after a
\* not-pinched start, with one firework in all
C2_Witness ==
    \E h \in Hands :
        hist[h].run >= 3 /\ ~hist[h].runPrior /\ hist[h].runSpawns = 1

\* C3: in a detection frame a hand whose distance is >= 0.05 creates no
\* firework, whatever the table held for its index before the frame; distance
\* exactly 0.05 is not pinched.
C3_OpenHandNeverSpawns ==
    obs.detected =>
        \A h \in Reported :
            DistanceSq(obs.det.hands[h + 1]) >= pinchThreshold * pinchThreshold =>
                SpawnCount(obs.spawns, h) = 0

\* C3 witness: a hand at distance exactly 0.05 whose stored state was pinched
\* before the frame, and no firework for it
C3_Witness ==
    /\ obs.detected
    /\ \E h \in Reported :
          /\ DistanceSq(obs.det.hands[h + 1]) = pinchThreshold * pinchThreshold
          /\ h \in DOMAIN obs.before /\ obs.before[h]
          /\ SpawnCount(obs.spawns, h) = 0

\* C4: from an empty table, a detection frame creates a firework for a reported
\* hand index exactly when the frame classifies it pinched and the previous
\* frame that reported the index did not (not pinched before the first report);
\* distances 0.08, 0.03, 0.03, 0.08 for hand 0 give [none, one, none, none].
C4_SpawnExactlyOnRisingEdge ==
    /\ obs.detected =>
          \A h \in Reported :
              SpawnCount(obs.spawns, h)
                  = IF hist[h].rep = "pinch" /\ ~hist[h].prevClass THEN 1 ELSE 0
    /\ (scen.live /\ Len(scen.out) = Len(Scenario)) => scen.out = <<0, 1, 0, 0>>

\* C4 witness: hand 0 has been through the whole scenario
C4_Witness == scen.live /\ Len(scen.out) = Len(Scenario) /\ scen.out[2] = 1

(***************************************************************************)
(* Properties of the particles and fireworks (checked under SpecAnim)      *)
(***************************************************************************)
\* the Firework.update calls of the last frame
Updates == {obs.updates[k] : k \in 1 .. Len(obs.updates)}

\* the fireworks of the active list
Active == {fireworks[k] : k \in 1 .. Len(fireworks)}

\* the particles of a firework
ParticlesOf(fw) == {fw.particles[j] : j \in 1 .. Len(fw.particles)}

\* C5: after a Firework.update pass a particle has been removed from the
\* collection if and only if its lifespan is < 0: none with lifespan < 0 stays,
\* none with lifespan >= 0 is removed.
C5_RemovedIffExpired ==
    /\ \A fw \in Active : \A pt \in ParticlesOf(fw) : pt.lifespan >= 0
    /\ \A u \in Updates :
          /\ \A st \in u.steps : st[3] <=> (st[2] < 0)
          /\ u.endLen = u.startLen - u.removed

\* C5 witness: one update pass that removes some particles and keeps others
C5_Witness ==
    \E u \in Updates :
        /\ \E st \in u.steps : st[3] /\ st[2] < 0
        /\ \E st \in u.steps : ~st[3] /\ st[2] >= 0
        /\ u.removed > 0 /\ u.endLen > 0

\* C6 as stated: every Particle.update call made while the particle is in its
\* firework's collection strictly decreases the lifespan, for every reachable
\* lifespan, one that lands exactly on 0 included.
C6_Original == \A u \in Updates : \A st \in u.steps : st[2] < st[1]

\* C7: after construction and after each Firework.update, done is true if and
\* only if the particle collection is empty.
C7_DoneIffEmpty ==
    /\ \A fw \in Active : fw.done <=> (Len(fw.particles) = 0)
    /\ \A u \in Updates : u.done <=> (u.endLen = 0)
    /\ \A k \in 1 .. Len(obs.spawns) :
          obs.spawns[k].fw.done <=> (Len(obs.spawns[k].fw.particles) = 0)

\* C7 witness: an update pass that empties a firework and marks it done
C7_Witness == \E u \in Updates : u.done /\ u.endLen = 0 /\ u.startLen > 0

\* C8: every spawn event creates, within the detection step, exactly one firework
\* of exactly 120 particles, each at the spawn point with lifespan 255, zero
\* accumulated force, the firework's hue and a decay rate within 1.5 .. 4 (not
\* zero); the firework is not done.
C8_BurstAsConstructed ==
    /\ obs.lenDetect = obs.lenBefore + Len(obs.spawns)
    /\ \A k \in 1 .. Len(obs.spawns) :
          LET sp == obs.spawns[k]
          IN  /\ Len(sp.fw.particles) = 120
              /\ ~sp.fw.done
              /\ \A pt \in ParticlesOf(sp.fw) :
                    /\ pt.pos = <<sp.x, sp.y>>
                    /\ pt.lifespan = 255 * LifeScale
                    /\ pt.acc = <<0, 0>>
                    /\ pt.hue = sp.fw.hue
                    /\ pt.decay # 0
                    /\ 3 * LifeScale <= 2 * pt.decay /\ pt.decay <= 4 * LifeScale

\* C8 witness: a frame that created a firework, one of whose decay rates is the
\* lower end 1.5 of the range
C8_Witness ==
    /\ Len(obs.spawns) = 1
    /\ obs.lenDetect = obs.lenBefore + 1
    /\ \E pt \in ParticlesOf(obs.spawns[1].fw) : 2 * pt.decay = 3 * LifeScale

\* C9 as stated: with the frame callback called again and again, every particle
\* is eventually removed and every firework eventually completes and leaves the
\* active list; once no more spawn events come (the video of SpecAnim has
\* stopped) the active list becomes empty and stays empty.
C9_Original == <>[](fireworks = <<>>)

\* C10: at the end of every frame callback the active list holds no firework
\* that is done and none without particles: a firework leaves the list in the
\* frame in which its last particle is removed.
C10_NoFinishedBurstStays ==
    /\ \A fw \in Active : ~fw.done /\ Len(fw.particles) > 0
    /\ Len(fireworks) = obs.lenDetect - Cardinality({k \in 1 .. Len(obs.updates) :
                                                       obs.updates[k].endLen = 0})

\* C10 witness: a frame in which one firework lost its last particle and left the
\* list while another stayed
C10_Witness ==
    /\ \E u \in Updates : u.endLen = 0 /\ u.startLen > 0
    /\ Len(fireworks) = 1
    /\ obs.lenDetect = 2

(***************************************************************************)
(* Further properties of the detection step (checked under Spec)           *)
(***************************************************************************)
\* C11: after a frame's detection step the table maps every hand index reported
\* in the frame to the frame's classification (distance < 0.05), spawn or not;
\* every entry of an index not reported is unchanged; without landmark data the
\* whole table is unchanged and nothing is spawned; no entry is ever deleted.
C11_TableFollowsReports ==
    /\ DOMAIN obs.before \subseteq DOMAIN handPinchStates
    /\ Reported \subseteq DOMAIN handPinchStates
    /\ \A h \in Reported : handPinchStates[h] = (Report(obs.det, h) = "pinch")
    /\ \A h \in DOMAIN handPinchStates \ Reported :
          h \in DOMAIN obs.before /\ handPinchStates[h] = obs.before[h]
    /\ ~obs.det.present => handPinchStates = obs.before /\ obs.spawns = <<>>

\* C11 witness: a detection frame that reports hand 0 pinched without a spawn and
\* does not report hand 1, whose entry stays
C11_Witness ==
    /\ obs.detected /\ obs.det.present
    /\ Reported = {0}
    /\ handPinchStates[0] /\ obs.spawns = <<>>
    /\ 1 \in DOMAIN handPinchStates /\ handPinchStates[1] = obs.before[1]

\* C12: in a frame where the video's current time equals the last processed
\* video time the detection step is skipped (table and lastVideoTime unchanged,
\* no firework created); in that frame, as in every frame, every active firework
\* is updated and drawn; in a frame with a new video time lastVideoTime is set
\* to it.
C12_SkipsDetectionNotAnimation ==
    obs.called =>
        /\ obs.time = obs.prevTime =>
              /\ handPinchStates = obs.before
              /\ lastVideoTime = obs.prevTime
              /\ obs.spawns = <<>>
              /\ obs.lenDetect = obs.lenBefore
        /\ obs.time # obs.prevTime => lastVideoTime = obs.time
        /\ Len(obs.updates) = obs.lenDetect
        /\ \A u \in Updates : u.visits = u.startLen /\ (u.endLen > 0 => u.drawn # {})

\* C12 witness: a frame at an unchanged video time, with a firework to animate
\* and a table that holds a pinched hand
C12_Witness ==
    /\ obs.called /\ obs.time = obs.prevTime
    /\ Len(obs.updates) > 0
    /\ 0 \in DOMAIN handPinchStates /\ handPinchStates[0]

\* C13: a hand index that was not reported and is reported again is compared
\* with the state last recorded for it, however long it was absent: recorded
\* pinched and back with distance < 0.05, no spawn; recorded not pinched (or never
\* recorded) and back with distance < 0.05, exactly one spawn.
C13_ReappearanceUsesStoredState ==
    \A h \in Reported :
        (hist[h].prevRep = "none" /\ hist[h].rep = "pinch") =>
            IF hist[h].prevClass
            THEN /\ h \in DOMAIN obs.before /\ obs.before[h]
                 /\ SpawnCount(obs.spawns, h) = 0
            ELSE /\ h \in DOMAIN obs.before => ~obs.before[h]
                 /\ SpawnCount(obs.spawns, h) = 1

\* C13 witness: hand 1 was recorded pinched, was then not reported, and is back
\* pinched without a spawn
C13_Witness ==
    /\ 1 \in Reported
    /\ hist[1].prevRep = "none" /\ hist[1].rep = "pinch" /\ hist[1].prevClass
    /\ SpawnCount(obs.spawns, 1) = 0

(***************************************************************************)
(* Further properties of the animation step (checked under SpecAnim)       *)
(***************************************************************************)
\* a particle after exactly one applyForce(gravity) and one update()
UpdatedOnce(pt) == ParticleUpdate(ParticleApplyForce(pt, <<0, gravityY>>))

\* a particle that is not below zero
NotExpired(pt) == pt.lifespan >= 0

\* a firework that still has particles
HasParticles(fw) == Len(fw.particles) > 0

\* a firework whose particles have each been updated exactly once, in their
\* order, those below zero taken out
FireworkUpdatedOnce(fw) ==
    LET kept == SelectSeq([j \in 1 .. Len(fw.particles) |-> UpdatedOnce(fw.particles[j])],
                          NotExpired)
    IN  [fw EXCEPT !.particles = kept, !.done = fw.done \/ Len(kept) = 0]

\* C14: in every frame each firework in the list at the start of the animation
\* step is updated exactly once and each particle in a firework at the start of
\* its update is updated exactly once, whatever is spliced out on the way: the
\* list after the frame is the list before it plus the frame's new fireworks,
\* each particle advanced by one update, the expired and the empty taken out.
C14_EachUpdatedExactlyOnce ==
    [][LET start == fireworks \o [k \in 1 .. Len(obs'.spawns) |-> obs'.spawns[k].fw]
           once  == [k \in 1 .. Len(start) |-> FireworkUpdatedOnce(start[k])]
       IN  /\ fireworks' = SelectSeq(once, HasParticles)
           /\ Len(obs'.updates) = Len(start)
           /\ \A k \in 1 .. Len(start) :
                 LET u == obs'.updates[Len(start) + 1 - k]
                 IN  /\ u.startLen = Len(start[k].particles)
                     /\ u.visits = u.startLen
                     /\ u.endLen = Len(once[k].particles)]_vars

\* C14 witness: a frame in which the firework visited first lost all its 120
\* particles, one splice after the other, and was spliced out of the list, and
\* the firework below it was updated all the same
C14_Witness ==
    /\ Len(obs.updates) = 2
    /\ obs.updates[1].startLen = count /\ obs.updates[1].removed = count
    /\ obs.updates[1].visits = count /\ obs.updates[1].endLen = 0
    /\ obs.updates[2].startLen > 0 /\ obs.updates[2].visits = obs.updates[2].startLen
    /\ Len(fireworks) = 1

\* what the last frame drew: <<lifespan, stroke weight>> of every point
Drawn == UNION {u.drawn : u \in Updates}

\* C15: every particle drawn has a lifespan within 0 .. 255 when it is drawn
\* (opacity lifespan / 255 within [0, 1]); none is drawn below zero; the stroke
\* weight is 5 exactly when lifespan > 200, and 3 otherwise.
C15_DrawnWithinRange ==
    \A d \in Drawn :
        /\ 0 <= d[1] /\ d[1] <= 255 * LifeScale
        /\ d[2] = IF d[1] > 200 * LifeScale THEN 5 ELSE 3

\* C15 witness: a frame that drew a point at lifespan exactly 200 and a point
\* above 200
C15_Witness ==
    /\ \E d \in Drawn : d[1] = 200 * LifeScale /\ d[2] = 3
    /\ \E d \in Drawn : d[1] > 200 * LifeScale /\ d[2] = 5

(***************************************************************************)
(* Properties of the component's life (checked under SpecLife)             *)
(***************************************************************************)
Runs == 1 .. Len(life.runs)

\* what run k has created and nobody has released
StreamLive(k) == life.runs[k].stream /\ k \notin life.stopped
LandmarkerLive(k) == life.runs[k].handLandmarker = "open"
SketchLive(k) == life.runs[k].myP5 = "live"

\* C16 as stated, for the teardowns that find the refs still attached: once
\* a run of the effect has been torn down and its startApp has returned, none of
\* the stream, the landmarker and the sketch it created is live, at whatever
\* point of startApp the teardown came.
C16_Original ==
    ~life.unmounted =>
        \A k \in Runs :
            (life.runs[k].cleaned /\ ~Pending(life.runs[k])) =>
                ~StreamLive(k) /\ ~LandmarkerLive(k) /\ ~SketchLive(k)

\* C17 as stated: the effect ran, was cleaned up and ran again while the first
\* startApp was pending; once both have returned at most one stream, one
\* landmarker and one sketch are live, and after the final teardown (refs still
\* attached) none is.
C17_Original ==
    (/\ Len(life.runs) = 2
     /\ life.runs[2].overlap
     /\ ~life.unmounted
     /\ \A k \in Runs : ~Pending(life.runs[k])) =>
        /\ Cardinality({k \in Runs : StreamLive(k)}) <= 1
        /\ Cardinality({k \in Runs : LandmarkerLive(k)}) <= 1
        /\ Cardinality({k \in Runs : SketchLive(k)}) <= 1
        /\ life.runs[2].cleaned =>
              \A k \in Runs : ~StreamLive(k) /\ ~LandmarkerLive(k) /\ ~SketchLive(k)

\* C18: a run whose getUserMedia or createHandLandmarker call rejects ends
\* failed: it has set the error exactly once, to the one message, loading is
\* cleared, it has no sketch, and it has called neither function a second time;
\* a run that has not failed has never set the error, so without a failed run
\* the error is unset after any number of frames.
C18_FailureSurfacesOnce ==
    /\ \A k \in Runs :
          LET run == life.runs[k]
          IN  /\ run.pc = "failed" =>
                    /\ run.errors = 1
                    /\ life.error = ErrorMessage
                    /\ ~life.loading
                    /\ run.myP5 = "none" /\ run.handLandmarker = "none"
              /\ run.pc # "failed" => run.errors = 0
              /\ run.getUserMediaCalls = 1 /\ run.landmarkerCalls <= 1
    /\ life.error # "" => \E k \in Runs : life.runs[k].pc = "failed"
    /\ (\A k \in Runs : life.runs[k].pc # "failed") => life.error = ""

\* C18 witness: the first run went through and its sketch has drawn a frame
\* without landmark data; the second run failed at the model load
C18_Witness ==
    /\ Len(life.runs) = 2
    /\ life.runs[1].pc = "running" /\ obs.called /\ ~obs.det.present
    /\ life.runs[2].pc = "failed" /\ life.runs[2].landmarkerCalls = 1
    /\ life.error = ErrorMessage

(***************************************************************************)
(* Properties of whole frames (checked under SpecAnim)                     *)
(***************************************************************************)
\* C19: the detection step runs before the animation step, so a firework
\* created in a frame is updated and drawn in that same frame: at the end of the
\* frame each of its particles has lifespan 255 minus its decay and has been
\* drawn with it, and no particle is ever drawn at lifespan 255.
C19_NewBurstAnimatedSameFrame ==
    /\ \A d \in Drawn : d[1] < 255 * LifeScale
    /\ Len(obs.spawns) <= Len(fireworks) /\ Len(obs.spawns) <= Len(obs.updates)
    /\ \A k \in 1 .. Len(obs.spawns) :
          LET made == obs.spawns[k].fw
              now  == fireworks[Len(fireworks) - Len(obs.spawns) + k]
              u    == obs.updates[Len(obs.spawns) + 1 - k]
          IN  /\ Len(now.particles) = Len(made.particles)
              /\ u.visits = Len(made.particles)
              /\ \A j \in 1 .. Len(made.particles) :
                    /\ made.particles[j].lifespan = 255 * LifeScale
                    /\ now.particles[j].lifespan
                          = 255 * LifeScale - made.particles[j].decay
                    /\ \E d \in u.drawn : d[1] = now.particles[j].lifespan

\* C19 witness: a frame that created a firework while an older one was active
C19_Witness ==
    /\ Len(obs.spawns) = 1 /\ obs.lenBefore = 1 /\ Len(fireworks) = 2
    /\ \E pt \in ParticlesOf(fireworks[2]) : pt.lifespan = 255 * LifeScale - pt.decay

\* a collection that is not empty
Positive(n) == n > 0

\* C20: over any sequence of frames the number of particles of a firework never
\* increases after construction and never exceeds 120, its done flag never goes
\* back to false, and the active list grows only by the frame's spawn events, at
\* most one per hand the frame reports.
C20_OnlyShrinks ==
    [][LET made  == [k \in 1 .. Len(obs'.spawns) |-> obs'.spawns[k].fw]
           start == fireworks \o made
           ends  == [k \in 1 .. Len(start) |-> obs'.updates[Len(start) + 1 - k].endLen]
       IN  /\ Len(obs'.updates) = Len(start)
           /\ \A k \in 1 .. Len(start) :
                 /\ Len(start[k].particles) <= 120
                 /\ ends[k] <= Len(start[k].particles)
                 /\ start[k].done => obs'.updates[Len(start) + 1 - k].done
           /\ [k \in 1 .. Len(fireworks') |-> Len(fireworks'[k].particles)]
                 = SelectSeq(ends, Positive)
           /\ Len(fireworks') <= Len(fireworks) + Len(obs'.spawns)
           /\ Len(obs'.spawns) <= Len(obs'.det.hands)
           /\ \A k \in 1 .. Len(obs'.spawns) :
                 /\ obs'.spawns[k].index \in 0 .. Len(obs'.det.hands) - 1
                 /\ SpawnCount(obs'.spawns, obs'.spawns[k].index) = 1]_vars

\* C20 witness: a frame in which a firework lost some of its particles and kept
\* the others, with a second firework in the list
C20_Witness ==
    /\ Len(fireworks) = 2
    /\ \E u \in Updates : 0 < u.endLen /\ u.endLen < u.startLen /\ u.startLen = 120

====
